---- MODULE Spec2Model ----
(***************************************************************************)
(* Model of the Mushroom CRM Flask backend (src/backend/app.py).           *)
(*                                                                         *)
(* The relational store is modelled as one set of rows per table, a row    *)
(* being a record that carries the columns the handlers read or write.     *)
(* A request is one action: the before_request hook, the jwt_required      *)
(* gate, the handler body and its commit.  The last request and its        *)
(* response are kept in req and resp so that properties of a response can  *)
(* be stated.  A JSON body is a record of optional values: <<>> is an      *)
(* absent key, <<v>> a key with value v.                                   *)
(***************************************************************************)
EXTENDS Integers, Sequences, FiniteSets, TLC

VARIABLES
    users,          \* table users
    products,       \* table products
    warehouses,     \* table warehouses
    inventory,      \* table inventory
    sales,          \* table sales
    expenses,       \* table expenses
    subscriptions,  \* table subscriptions
    nextId,         \* per table, the next value of its id sequence
    tablesCreated,  \* whether db.create_all() has created the schema
    now,            \* datetime.utcnow(), in days
    tokens,         \* identities for which login has issued an access token
    credentials,    \* history: the (email, password) pairs register accepted
    req,            \* the last request
    resp,           \* the response to it
    inflight        \* POST /inventory requests between their SELECT and their commit

vars == <<users, products, warehouses, inventory, sales, expenses, subscriptions,
          nextId, tablesCreated, now, tokens, credentials, req, resp, inflight>>

----------------------------------------------------------------------------
(* Bounds of the model *)

\* number of rows the requests of one behaviour may insert into the entity tables
MaxCreates == 4
\* last day the clock reaches
MaxTime == 2
\* days in a calendar month of the model's clock
MonthLen == 2

----------------------------------------------------------------------------
(* JSON values *)

Null == <<>>
Some(v) == <<v>>
Opt(S) == {Null} \cup {Some(v) : v \in S}

\* Python truthiness of data.get(key): absent, None, "" and 0 are falsy
TruthyStr(v) == v # Null /\ v[1] # ""
TruthyNum(v) == v # Null /\ v[1] # 0

\* data.get(key, default)
GetOr(v, default) == IF v = Null THEN default ELSE v[1]

Emails == {"a@farm", "b@farm"}
Passwords == {"pw1", "pw2"}
Names == {"Ann", "Bob"}
Salts == {7}

TableNames == {"users", "products", "warehouses", "inventory", "sales", "expenses",
               "subscriptions"}

----------------------------------------------------------------------------
(* Requests and responses *)

NoToken == [kind |-> "missing", sub |-> 0]
ValidToken(uid) == [kind |-> "valid", sub |-> uid]
BadTokens == {NoToken, [kind |-> "malformed", sub |-> 0],
              [kind |-> "expired", sub |-> 1], [kind |-> "badsig", sub |-> 1]}

ProtectedOps == {"get_products", "create_product", "update_product", "delete_product",
                 "get_warehouses", "create_warehouse", "update_warehouse",
                 "delete_warehouse", "get_inventory", "get_warehouse_inventory",
                 "create_inventory", "update_inventory", "delete_inventory",
                 "get_sales", "create_sale", "update_sale", "delete_sale",
                 "get_expenses", "create_expense", "delete_expense",
                 "get_subscriptions", "create_subscription",
                 "get_dashboard_analytics"}

Request(op, tok, id, data) == [op |-> op, token |-> tok, id |-> id, data |-> data]

\* the steps a request went through, in order
PublicSteps == <<"create_all", "handler">>
RejectedSteps == <<"create_all", "verify_jwt">>
ProtectedSteps == <<"create_all", "verify_jwt", "handler">>
FailedSteps == <<"create_all", "verify_jwt", "handler", "rollback">>

Response(status, error, body, steps) ==
    [status |-> status, error |-> error, body |-> body, steps |-> steps]

\* @app.before_request: db.create_all() runs before the view and its decorators
create_tables == tablesCreated' = TRUE

\* status flask_jwt_extended answers when verify_jwt_in_request fails
JwtFailureStatus(tok) == IF tok.kind \in {"missing", "expired"} THEN 401 ELSE 422

\* get_jwt_identity() of a verified token
get_jwt_identity(tok) == tok.sub

----------------------------------------------------------------------------
(* Credential store *)

\* bcrypt: a salted digest; the stored value is never the plain password
generate_password_hash(password, salt) ==
    [salt |-> salt, digest |-> <<salt, password>>]

check_password_hash(hash, password) ==
    hash.digest = <<hash.salt, password>>

\* User.query.filter_by(email=...)
UsersByEmail_none(email) == {}
UsersByEmail(email) == {u \in users : u.email = email}

\* the unique index on users.email refuses a second row with the same email
EmailIndexRefuses(email) == \E u \in users : u.email = email

UserView(u) == [id |-> u.id, email |-> u.email, name |-> u.name]

RegisterBodies == [email : Opt(Emails), password : Opt(Passwords), name : Opt(Names)]

register(data, salt) ==
    /\ req' = Request("register", NoToken, 0, data)
    /\ create_tables
    /\ IF ~(TruthyStr(data.email) /\ TruthyStr(data.password) /\ TruthyStr(data.name))
       THEN /\ resp' = Response(400, "Missing required fields", Null, PublicSteps)
            /\ UNCHANGED <<users, nextId, credentials>>
       ELSE IF UsersByEmail(data.email[1]) # {}
       THEN /\ resp' = Response(409, "Email already registered", Null, PublicSteps)
            /\ UNCHANGED <<users, nextId, credentials>>
       ELSE IF EmailIndexRefuses(data.email[1])
       THEN /\ resp' = Response(500, "Internal server error", Null,
                                <<"create_all", "handler", "rollback">>)
            /\ UNCHANGED <<users, nextId, credentials>>
       ELSE LET user == [id |-> nextId["users"],
                         email |-> data.email[1],
                         name |-> data.name[1],
                         password |-> generate_password_hash(data.password[1], salt),
                         is_active |-> TRUE]
            IN  /\ users' = users \cup {user}
                /\ nextId' = [nextId EXCEPT !["users"] = @ + 1]
                /\ credentials' = credentials \cup
                       {[email |-> data.email[1], password |-> data.password[1]]}
                /\ resp' = Response(201, "", UserView(user), PublicSteps)
    /\ UNCHANGED <<products, warehouses, inventory, sales, expenses, subscriptions,
                   now, tokens, inflight>>

LoginBodies == [email : Opt(Emails \cup {"c@farm"}), password : Opt(Passwords \cup {""})]

\* the condition of line 344
LoginRefused_nocheck(found, password) == found = {}
LoginRefused(found, password) ==
    found = {} \/ \A u \in found : ~check_password_hash(u.password, password)

login(data) ==
    /\ req' = Request("login", NoToken, 0, data)
    /\ create_tables
    /\ IF ~(TruthyStr(data.email) /\ TruthyStr(data.password))
       THEN /\ resp' = Response(400, "Missing email or password", Null, PublicSteps)
            /\ UNCHANGED tokens
       ELSE LET found == UsersByEmail(data.email[1])
            IN  IF LoginRefused(found, data.password[1])
                THEN /\ resp' = Response(401, "Invalid email or password", Null, PublicSteps)
                     /\ UNCHANGED tokens
                ELSE \E user \in found :
                       IF ~user.is_active
                       THEN /\ resp' = Response(403, "User account is inactive", Null,
                                                PublicSteps)
                            /\ UNCHANGED tokens
                       ELSE /\ tokens' = tokens \cup {user.id}
                            /\ resp' = Response(200, "",
                                   [access_token |-> ValidToken(user.id),
                                    user |-> UserView(user)], PublicSteps)
    /\ UNCHANGED <<users, products, warehouses, inventory, sales, expenses,
                   subscriptions, nextId, now, credentials, inflight>>

\* a protected route called with a token jwt_required() refuses
unauthenticated(op, tok) ==
    /\ req' = Request(op, tok, 0, Null)
    /\ create_tables
    /\ resp' = Response(JwtFailureStatus(tok), "jwt", Null, RejectedSteps)
    /\ UNCHANGED <<users, products, warehouses, inventory, sales, expenses,
                   subscriptions, nextId, now, tokens, credentials, inflight>>

health_check ==
    /\ req' = Request("health_check", NoToken, 0, Null)
    /\ create_tables
    /\ resp' = Response(200, "", [status |-> "healthy"], PublicSteps)
    /\ UNCHANGED <<users, products, warehouses, inventory, sales, expenses,
                   subscriptions, nextId, now, tokens, credentials, inflight>>

----------------------------------------------------------------------------
(* Shared by the resource handlers *)

EntityTables == {"products", "warehouses", "inventory", "sales", "expenses",
                 "subscriptions"}

\* rows inserted so far into the entity tables
Created ==
    (nextId["products"] - 1) + (nextId["warehouses"] - 1) + (nextId["inventory"] - 1)
    + (nextId["sales"] - 1) + (nextId["expenses"] - 1) + (nextId["subscriptions"] - 1)

CanCreate == Created < MaxCreates

Ids(rows) == {r.id : r \in rows}

\* Model.query.filter_by(id=..., user_id=...)
OwnedById_anyuser(rows, id, user_id) == {r \in rows : r.id = id}
OwnedById(rows, id, user_id) == {r \in rows : r.id = id /\ r.user_id = user_id}

Ok_refused(status, body) == Response(404, "", body, ProtectedSteps)
Ok(status, body) == Response(status, "", body, ProtectedSteps)
Err(status, error) == Response(status, error, Null, ProtectedSteps)
\* an unhandled exception: the 500 handler rolls the session back
InternalError == Response(500, "Internal server error", Null, FailedSteps)

Authorized(op, uid, id, data) ==
    /\ uid \in tokens
    /\ req' = Request(op, ValidToken(uid), id, data)
    /\ create_tables

----------------------------------------------------------------------------
(* Products *)

create_product(uid, data) ==
    /\ Authorized("create_product", uid, 0, data)
    /\ LET user_id == get_jwt_identity(ValidToken(uid))
       IN  IF ~(TruthyStr(data.name) /\ TruthyNum(data.retail_price)
                /\ TruthyNum(data.wholesale_price))
           THEN /\ resp' = Err(400, "Missing required fields")
                /\ UNCHANGED <<products, nextId>>
           ELSE LET product == [id |-> nextId["products"],
                                user_id |-> user_id,
                                name |-> data.name[1],
                                unit |-> GetOr(data.unit, "box"),
                                retail_price |-> data.retail_price[1],
                                wholesale_price |-> data.wholesale_price[1],
                                updated_at |-> now]
                IN  /\ CanCreate
                    /\ products' = products \cup {product}
                    /\ nextId' = [nextId EXCEPT !["products"] = @ + 1]
                    /\ resp' = Ok(201, product)
    /\ UNCHANGED <<users, warehouses, inventory, sales, expenses, subscriptions, now,
                   tokens, credentials, inflight>>

update_product(uid, product_id, data) ==
    /\ Authorized("update_product", uid, product_id, data)
    /\ LET user_id == get_jwt_identity(ValidToken(uid))
           found == OwnedById(products, product_id, user_id)
       IN  IF found = {}
           THEN /\ resp' = Err(404, "Product not found")
                /\ UNCHANGED products
           ELSE \E product \in found :
                  LET updated == [product EXCEPT
                                    !.name = GetOr(data.name, @),
                                    !.unit = GetOr(data.unit, @),
                                    !.retail_price = GetOr(data.retail_price, @),
                                    !.wholesale_price = GetOr(data.wholesale_price, @),
                                    !.updated_at = now]
                  IN  /\ products' = (products \ {product}) \cup {updated}
                      /\ resp' = Ok(200, updated)
    /\ UNCHANGED <<users, warehouses, inventory, sales, expenses, subscriptions, nextId,
                   now, tokens, credentials, inflight>>

\* rows whose product_id foreign key points at the product
ProductReferenced(product_id) ==
    \/ \E i \in inventory : i.product_id = product_id
    \/ \E s \in sales : s.product_id = Some(product_id)
    \/ \E s \in subscriptions : s.product_id = product_id

delete_product(uid, product_id) ==
    /\ Authorized("delete_product", uid, product_id, Null)
    /\ LET user_id == get_jwt_identity(ValidToken(uid))
           found == OwnedById(products, product_id, user_id)
       IN  IF found = {}
           THEN /\ resp' = Err(404, "Product not found")
                /\ UNCHANGED products
           ELSE IF ProductReferenced(product_id)
           THEN /\ resp' = InternalError
                /\ UNCHANGED products
           ELSE /\ products' = products \ found
                /\ resp' = Ok(200, Null)
    /\ UNCHANGED <<users, warehouses, inventory, sales, expenses, subscriptions, nextId,
                   now, tokens, credentials, inflight>>

----------------------------------------------------------------------------
(* Warehouses *)

create_warehouse(uid, data) ==
    /\ Authorized("create_warehouse", uid, 0, data)
    /\ LET user_id == get_jwt_identity(ValidToken(uid))
       IN  IF ~TruthyStr(data.name)
           THEN /\ resp' = Err(400, "Warehouse name required")
                /\ UNCHANGED <<warehouses, nextId>>
           ELSE LET warehouse == [id |-> nextId["warehouses"],
                                  user_id |-> user_id,
                                  name |-> data.name[1],
                                  updated_at |-> now]
                IN  /\ CanCreate
                    /\ warehouses' = warehouses \cup {warehouse}
                    /\ nextId' = [nextId EXCEPT !["warehouses"] = @ + 1]
                    /\ resp' = Ok(201, warehouse)
    /\ UNCHANGED <<users, products, inventory, sales, expenses, subscriptions, now,
                   tokens, credentials, inflight>>

update_warehouse(uid, warehouse_id, data) ==
    /\ Authorized("update_warehouse", uid, warehouse_id, data)
    /\ LET user_id == get_jwt_identity(ValidToken(uid))
           found == OwnedById(warehouses, warehouse_id, user_id)
       IN  IF found = {}
           THEN /\ resp' = Err(404, "Warehouse not found")
                /\ UNCHANGED warehouses
           ELSE \E warehouse \in found :
                  LET updated == [warehouse EXCEPT !.name = GetOr(data.name, @),
                                                   !.updated_at = now]
                  IN  /\ warehouses' = (warehouses \ {warehouse}) \cup {updated}
                      /\ resp' = Ok(200, updated)
    /\ UNCHANGED <<users, products, inventory, sales, expenses, subscriptions, nextId,
                   now, tokens, credentials, inflight>>

\* Inventory.query.filter_by(warehouse_id=warehouse_id).delete(): the rows it removes
CascadedInventory_none(warehouse_id) == {}
CascadedInventory(warehouse_id) == {i \in inventory : i.warehouse_id = warehouse_id}

\* db.session.delete(warehouse)
WithoutWarehouse(warehouse) == warehouses \ {warehouse}

delete_warehouse(uid, warehouse_id) ==
    /\ Authorized("delete_warehouse", uid, warehouse_id, Null)
    /\ LET user_id == get_jwt_identity(ValidToken(uid))
           found == OwnedById(warehouses, warehouse_id, user_id)
       IN  IF found = {}
           THEN /\ resp' = Err(404, "Warehouse not found")
                /\ UNCHANGED <<warehouses, inventory>>
           ELSE \E warehouse \in found :
                  \* cascaded: the row count Query.delete() returns (the handler drops it)
                  LET cascaded == CascadedInventory(warehouse_id)
                  IN  /\ inventory' = inventory \ cascaded
                      /\ warehouses' = WithoutWarehouse(warehouse)
                      /\ resp' = Ok(200, [cascaded |-> Cardinality(cascaded)])
    /\ UNCHANGED <<users, products, sales, expenses, subscriptions, nextId, now, tokens,
                   credentials, inflight>>

----------------------------------------------------------------------------
(* Inventory *)

\* largest quantity a merged inventory row reaches in the model
MaxStock == 4

InventoryValid(data) ==
    TruthyNum(data.warehouse_id) /\ TruthyNum(data.product_id) /\ TruthyNum(data.quantity)

\* Inventory.query.filter_by(user_id=..., warehouse_id=..., product_id=...)
ExistingInventory_none(rows, user_id, warehouse_id, product_id) == {}
ExistingInventory(rows, user_id, warehouse_id, product_id) ==
    {i \in rows : /\ i.user_id = user_id
                  /\ i.warehouse_id = warehouse_id
                  /\ i.product_id = product_id}

\* the foreign keys of inventory.warehouse_id and inventory.product_id
InventoryKeysExist(warehouse_id, product_id) ==
    warehouse_id \in Ids(warehouses) /\ product_id \in Ids(products)

\* existing.quantity += data['quantity']; existing.date = datetime.utcnow()
Merged(existing, quantity) ==
    [existing EXCEPT !.quantity = @ + quantity, !.date = now]

NewInventory(user_id, data) ==
    [id |-> nextId["inventory"],
     user_id |-> user_id,
     warehouse_id |-> data.warehouse_id[1],
     product_id |-> data.product_id[1],
     quantity |-> data.quantity[1],
     date |-> now]

create_inventory(uid, data) ==
    /\ Authorized("create_inventory", uid, 0, data)
    /\ LET user_id == get_jwt_identity(ValidToken(uid))
       IN  IF ~InventoryValid(data)
           THEN /\ resp' = Err(400, "Missing required fields")
                /\ UNCHANGED <<inventory, nextId>>
           ELSE LET found == ExistingInventory(inventory, user_id, data.warehouse_id[1],
                                               data.product_id[1])
                IN  IF found # {}
                    THEN \E existing \in found :
                           LET merged == Merged(existing, data.quantity[1])
                           IN  /\ merged.quantity <= MaxStock
                               /\ inventory' = (inventory \ {existing}) \cup {merged}
                               /\ resp' = Ok(200, merged)
                               /\ UNCHANGED nextId
                    ELSE IF ~InventoryKeysExist(data.warehouse_id[1], data.product_id[1])
                    THEN /\ resp' = InternalError
                         /\ UNCHANGED <<inventory, nextId>>
                    ELSE LET new == NewInventory(user_id, data)
                         IN  /\ CanCreate
                             /\ inventory' = inventory \cup {new}
                             /\ nextId' = [nextId EXCEPT !["inventory"] = @ + 1]
                             /\ resp' = Ok(201, new)
    /\ UNCHANGED <<users, products, warehouses, sales, expenses, subscriptions, now,
                   tokens, credentials, inflight>>

update_inventory(uid, inventory_id, data) ==
    /\ Authorized("update_inventory", uid, inventory_id, data)
    /\ LET user_id == get_jwt_identity(ValidToken(uid))
           found == OwnedById(inventory, inventory_id, user_id)
       IN  IF found = {}
           THEN /\ resp' = Err(404, "Inventory item not found")
                /\ UNCHANGED inventory
           ELSE \E item \in found :
                  LET updated == [item EXCEPT !.quantity = GetOr(data.quantity, @)]
                  IN  /\ inventory' = (inventory \ {item}) \cup {updated}
                      /\ resp' = Ok(200, updated)
    /\ UNCHANGED <<users, products, warehouses, sales, expenses, subscriptions, nextId,
                   now, tokens, credentials, inflight>>

delete_inventory(uid, inventory_id) ==
    /\ Authorized("delete_inventory", uid, inventory_id, Null)
    /\ LET user_id == get_jwt_identity(ValidToken(uid))
           found == OwnedById(inventory, inventory_id, user_id)
       IN  IF found = {}
           THEN /\ resp' = Err(404, "Inventory item not found")
                /\ UNCHANGED inventory
           ELSE /\ inventory' = inventory \ found
                /\ resp' = Ok(200, Null)
    /\ UNCHANGED <<users, products, warehouses, sales, expenses, subscriptions, nextId,
                   now, tokens, credentials, inflight>>

----------------------------------------------------------------------------
(* Sales *)

\* the foreign key of sales.product_id (nullable) and subscriptions.product_id
ProductKeyExists(product_id) == product_id \in Ids(products)

SaleValid(data) == TruthyStr(data.type) /\ TruthyNum(data.total)

\* datetime.fromisoformat(data['date']) if data.get('date') else datetime.utcnow()
DateOrNow(date) == IF date = Null THEN now ELSE date[1]

create_sale(uid, data) ==
    /\ Authorized("create_sale", uid, 0, data)
    /\ LET user_id == get_jwt_identity(ValidToken(uid))
       IN  IF ~SaleValid(data)
           THEN /\ resp' = Err(400, "Missing required fields")
                /\ UNCHANGED <<sales, nextId>>
           ELSE IF data.product_id # Null /\ ~ProductKeyExists(data.product_id[1])
           THEN /\ resp' = InternalError
                /\ UNCHANGED <<sales, nextId>>
           ELSE LET sale == [id |-> nextId["sales"],
                             user_id |-> user_id,
                             date |-> DateOrNow(data.date),
                             type |-> data.type[1],
                             customer_name |-> data.customer_name,
                             shop_name |-> data.shop_name,
                             product_id |-> data.product_id,
                             quantity |-> data.quantity,
                             total |-> data.total[1]]
                IN  /\ CanCreate
                    /\ sales' = sales \cup {sale}
                    /\ nextId' = [nextId EXCEPT !["sales"] = @ + 1]
                    /\ resp' = Ok(201, sale)
    /\ UNCHANGED <<users, products, warehouses, inventory, expenses, subscriptions,
                   now, tokens, credentials, inflight>>

\* data.get(key, current) on a nullable column
GetOrNullable_overwrite(v, current) == v
GetOrNullable(v, current) == IF v = Null THEN current ELSE v

update_sale(uid, sale_id, data) ==
    /\ Authorized("update_sale", uid, sale_id, data)
    /\ LET user_id == get_jwt_identity(ValidToken(uid))
           found == OwnedById(sales, sale_id, user_id)
       IN  IF found = {}
           THEN /\ resp' = Err(404, "Sale not found")
                /\ UNCHANGED sales
           ELSE \E sale \in found :
                  LET updated == [sale EXCEPT
                                    !.customer_name = GetOrNullable(data.customer_name, @),
                                    !.shop_name = GetOrNullable(data.shop_name, @),
                                    !.quantity = GetOrNullable(data.quantity, @),
                                    !.total = GetOr(data.total, @)]
                  IN  /\ sales' = (sales \ {sale}) \cup {updated}
                      /\ resp' = Ok(200, updated)
    /\ UNCHANGED <<users, products, warehouses, inventory, expenses, subscriptions,
                   nextId, now, tokens, credentials, inflight>>

delete_sale(uid, sale_id) ==
    /\ Authorized("delete_sale", uid, sale_id, Null)
    /\ LET user_id == get_jwt_identity(ValidToken(uid))
           found == OwnedById(sales, sale_id, user_id)
       IN  IF found = {}
           THEN /\ resp' = Err(404, "Sale not found")
                /\ UNCHANGED sales
           ELSE /\ sales' = sales \ found
                /\ resp' = Ok(200, Null)
    /\ UNCHANGED <<users, products, warehouses, inventory, expenses, subscriptions,
                   nextId, now, tokens, credentials, inflight>>

----------------------------------------------------------------------------
(* Expenses *)

ExpenseValid(data) == TruthyStr(data.category) /\ TruthyNum(data.amount)

create_expense(uid, data) ==
    /\ Authorized("create_expense", uid, 0, data)
    /\ LET user_id == get_jwt_identity(ValidToken(uid))
       IN  IF ~ExpenseValid(data)
           THEN /\ resp' = Err(400, "Missing required fields")
                /\ UNCHANGED <<expenses, nextId>>
           ELSE LET expense == [id |-> nextId["expenses"],
                                user_id |-> user_id,
                                date |-> DateOrNow(data.date),
                                category |-> data.category[1],
                                amount |-> data.amount[1]]
                IN  /\ CanCreate
                    /\ expenses' = expenses \cup {expense}
                    /\ nextId' = [nextId EXCEPT !["expenses"] = @ + 1]
                    /\ resp' = Ok(201, expense)
    /\ UNCHANGED <<users, products, warehouses, inventory, sales, subscriptions, now,
                   tokens, credentials, inflight>>

delete_expense(uid, expense_id) ==
    /\ Authorized("delete_expense", uid, expense_id, Null)
    /\ LET user_id == get_jwt_identity(ValidToken(uid))
           found == OwnedById(expenses, expense_id, user_id)
       IN  IF found = {}
           THEN /\ resp' = Err(404, "Expense not found")
                /\ UNCHANGED expenses
           ELSE /\ expenses' = expenses \ found
                /\ resp' = Ok(200, Null)
    /\ UNCHANGED <<users, products, warehouses, inventory, sales, subscriptions,
                   nextId, now, tokens, credentials, inflight>>

----------------------------------------------------------------------------
(* Subscriptions *)

SubscriptionValid(data) == TruthyStr(data.customer_name) /\ TruthyNum(data.product_id)

\* a string whose characters matter is a sequence of one-character strings
Comma == <<",">>

\* sep.join(list)
RECURSIVE join(_, _)
join(sep, list) ==
    IF list = <<>> THEN <<>>
    ELSE IF Len(list) = 1 THEN list[1]
    ELSE list[1] \o sep \o join(sep, Tail(list))

\* positions of the separator character in a string
SepAt(str, sep) == {i \in 1..Len(str) : <<str[i]>> = sep}

\* str.split(sep), for a separator of one character
RECURSIVE split(_, _)
split(str, sep) ==
    IF SepAt(str, sep) = {} THEN <<str>>
    ELSE LET i == CHOOSE k \in SepAt(str, sep) : \A m \in SepAt(str, sep) : k <= m
         IN  <<SubSeq(str, 1, i - 1)>> \o split(SubSeq(str, i + 1, Len(str)), sep)

\* ','.join(data['supply_days']) if data.get('supply_days') else ''
StoredSupplyDays(supply_days) ==
    IF supply_days # Null /\ supply_days[1] # <<>> THEN join(Comma, supply_days[1]) ELSE <<>>

\* Subscription.to_dict
Subscription_to_dict(s) ==
    [id |-> s.id,
     customer_name |-> s.customer_name,
     product_id |-> s.product_id,
     supply_days |-> IF s.supply_days # <<>> THEN split(s.supply_days, Comma) ELSE <<>>,
     status |-> s.status]

get_subscriptions(uid) ==
    /\ Authorized("get_subscriptions", uid, 0, Null)
    /\ LET user_id == get_jwt_identity(ValidToken(uid))
       IN  resp' = Ok(200, {Subscription_to_dict(s) :
                               s \in {r \in subscriptions : r.user_id = user_id}})
    /\ UNCHANGED <<users, products, warehouses, inventory, sales, expenses,
                   subscriptions, nextId, now, tokens, credentials, inflight>>

create_subscription(uid, data) ==
    /\ Authorized("create_subscription", uid, 0, data)
    /\ LET user_id == get_jwt_identity(ValidToken(uid))
       IN  IF ~SubscriptionValid(data)
           THEN /\ resp' = Err(400, "Missing required fields")
                /\ UNCHANGED <<subscriptions, nextId>>
           ELSE IF ~ProductKeyExists(data.product_id[1])
           THEN /\ resp' = InternalError
                /\ UNCHANGED <<subscriptions, nextId>>
           ELSE LET subscription == [id |-> nextId["subscriptions"],
                                     user_id |-> user_id,
                                     customer_name |-> data.customer_name[1],
                                     product_id |-> data.product_id[1],
                                     supply_days |-> StoredSupplyDays(data.supply_days),
                                     status |-> "Active"]
                IN  /\ CanCreate
                    /\ subscriptions' = subscriptions \cup {subscription}
                    /\ nextId' = [nextId EXCEPT !["subscriptions"] = @ + 1]
                    /\ resp' = Ok(201, Subscription_to_dict(subscription))
    /\ UNCHANGED <<users, products, warehouses, inventory, sales, expenses, now,
                   tokens, credentials, inflight>>

----------------------------------------------------------------------------
(* Lists: the rows of the caller, as a set (the order of a list is not modelled) *)

\* Model.query.filter_by(user_id=user_id).all()
OwnedRows(rows, user_id) == {r \in rows : r.user_id = user_id}

\* a GET that answers with rows and writes nothing
ListRoute(op, uid, id, rows) ==
    /\ Authorized(op, uid, id, Null)
    /\ resp' = Ok(200, rows)
    /\ UNCHANGED <<users, products, warehouses, inventory, sales, expenses,
                   subscriptions, nextId, now, tokens, credentials, inflight>>

get_products(uid) ==
    ListRoute("get_products", uid, 0, OwnedRows(products, get_jwt_identity(ValidToken(uid))))

get_warehouses(uid) ==
    ListRoute("get_warehouses", uid, 0,
              OwnedRows(warehouses, get_jwt_identity(ValidToken(uid))))

get_inventory(uid) ==
    ListRoute("get_inventory", uid, 0,
              OwnedRows(inventory, get_jwt_identity(ValidToken(uid))))

get_warehouse_inventory(uid, warehouse_id) ==
    ListRoute("get_warehouse_inventory", uid, warehouse_id,
              {i \in OwnedRows(inventory, get_jwt_identity(ValidToken(uid))) :
                  i.warehouse_id = warehouse_id})

get_sales(uid) ==
    ListRoute("get_sales", uid, 0, OwnedRows(sales, get_jwt_identity(ValidToken(uid))))

get_expenses(uid) ==
    ListRoute("get_expenses", uid, 0,
              OwnedRows(expenses, get_jwt_identity(ValidToken(uid))))

----------------------------------------------------------------------------
(* Dashboard *)

\* today.replace(day=1, hour=0, minute=0, second=0, microsecond=0)
start_of_month(today) == today - (today % MonthLen)

\* Query.all(): the rows as a list, in the order the store returns them
RECURSIVE AsList(_)
AsList(rows) ==
    IF rows = {} THEN <<>>
    ELSE LET r == CHOOSE x \in rows : \A y \in rows : x.id <= y.id
         IN  <<r>> \o AsList(rows \ {r})

\* sum(...) over a list of numbers
RECURSIVE PySum(_)
PySum(numbers) == IF numbers = <<>> THEN 0 ELSE Head(numbers) + PySum(Tail(numbers))

\* Sale.query.filter(Sale.user_id == user_id, Sale.date >= start_of_month).all()
SalesOfMonth_anydate(user_id, start) == AsList({s \in sales : s.user_id = user_id})
SalesOfMonth(user_id, start) ==
    AsList({s \in sales : s.user_id = user_id /\ s.date >= start})

ExpensesOfMonth(user_id, start) ==
    AsList({e \in expenses : e.user_id = user_id /\ e.date >= start})

ActiveSubscriptions(user_id) ==
    AsList({s \in subscriptions : s.user_id = user_id /\ s.status = "Active"})

DashboardMetrics(user_id) ==
    LET month == start_of_month(now)
        sold == SalesOfMonth(user_id, month)
        spent == ExpensesOfMonth(user_id, month)
        total_revenue == PySum([k \in 1..Len(sold) |-> sold[k].total])
        counted == SelectSeq(sold, LAMBDA s : TruthyNum(s.quantity))
        total_boxes == PySum([k \in 1..Len(counted) |-> counted[k].quantity[1]])
        total_expenses == PySum([k \in 1..Len(spent) |-> spent[k].amount])
    IN  [profit |-> total_revenue - total_expenses,
         sales_boxes |-> total_boxes,
         active_subscriptions |-> Len(ActiveSubscriptions(user_id)),
         monthly_expenses |-> total_expenses,
         total_revenue |-> total_revenue,
         sales_count |-> Len(sold),
         expense_count |-> Len(spent)]

get_dashboard_analytics(uid) ==
    /\ Authorized("get_dashboard_analytics", uid, 0, Null)
    /\ resp' = Ok(200, DashboardMetrics(get_jwt_identity(ValidToken(uid))))
    /\ UNCHANGED <<users, products, warehouses, inventory, sales, expenses,
                   subscriptions, nextId, now, tokens, credentials, inflight>>

\* time passes between two requests; the last response has been delivered
Tick ==
    /\ now < MaxTime
    /\ now' = now + 1
    /\ req' = Request("none", NoToken, 0, Null)
    /\ resp' = Response(0, "", Null, <<>>)
    /\ UNCHANGED <<users, products, warehouses, inventory, sales, expenses,
                   subscriptions, nextId, tablesCreated, tokens, credentials, inflight>>

----------------------------------------------------------------------------
(* POST /inventory as the two database round trips it is: the SELECT of lines    *)
(* 541-545 and the commit of line 550 or 565.  Two requests served by different  *)
(* workers interleave between the two; each worker has its own session, and the  *)
(* store runs them at its default isolation, so a commit is what the others see. *)

Workers == {1, 2}

select_inventory(w, uid, data) ==
    /\ inflight[w].pc = "idle"
    /\ uid \in tokens
    /\ create_tables
    /\ LET user_id == get_jwt_identity(ValidToken(uid))
       IN  IF ~InventoryValid(data)
           THEN inflight' = [inflight EXCEPT ![w] =
                    [pc |-> "done", user_id |-> user_id, data |-> data, found |-> {},
                     status |-> 400]]
           ELSE inflight' = [inflight EXCEPT ![w] =
                    [pc |-> "selected", user_id |-> user_id, data |-> data,
                     found |-> ExistingInventory(inventory, user_id,
                                                 data.warehouse_id[1],
                                                 data.product_id[1]),
                     status |-> 0]]
    /\ UNCHANGED <<users, products, warehouses, inventory, sales, expenses,
                   subscriptions, nextId, now, tokens, credentials, req, resp>>

commit_inventory(w) ==
    /\ inflight[w].pc = "selected"
    /\ LET r == inflight[w]
           Done(status) == inflight' = [inflight EXCEPT ![w].pc = "done",
                                                        ![w].status = status]
       IN  IF r.found # {}
           THEN \E existing \in r.found :
                  IF existing.id \notin Ids(inventory)
                  THEN \* the UPDATE matches no row: StaleDataError
                       /\ Done(500)
                       /\ UNCHANGED <<inventory, nextId>>
                  ELSE LET merged == Merged(existing, r.data.quantity[1])
                       IN  /\ merged.quantity <= MaxStock
                           /\ inventory' = {i \in inventory : i.id # existing.id}
                                           \cup {merged}
                           /\ Done(200)
                           /\ UNCHANGED nextId
           ELSE IF ~InventoryKeysExist(r.data.warehouse_id[1], r.data.product_id[1])
           THEN /\ Done(500)
                /\ UNCHANGED <<inventory, nextId>>
           ELSE /\ CanCreate
                /\ inventory' = inventory \cup {NewInventory(r.user_id, r.data)}
                /\ nextId' = [nextId EXCEPT !["inventory"] = @ + 1]
                /\ Done(201)
    /\ UNCHANGED <<users, products, warehouses, sales, expenses, subscriptions, now,
                   tablesCreated, tokens, credentials, req, resp>>

----------------------------------------------------------------------------
(* Initial states *)

NoRequest == Request("none", NoToken, 0, Null)
NoResponse == Response(0, "", Null, <<>>)
NoInflight == [w \in {1, 2} |-> [pc |-> "idle", user_id |-> 0, data |-> Null, found |-> {},
                                 status |-> 0]]

\* the application right after start, on an empty database
Init ==
    /\ users = {}
    /\ products = {}
    /\ warehouses = {}
    /\ inventory = {}
    /\ sales = {}
    /\ expenses = {}
    /\ subscriptions = {}
    /\ nextId = [t \in TableNames |-> 1]
    /\ tablesCreated = FALSE
    /\ now = 0
    /\ tokens = {}
    /\ credentials = {}
    /\ req = NoRequest
    /\ resp = NoResponse
    /\ inflight = NoInflight

NextAuth ==
    \/ \E data \in RegisterBodies, salt \in Salts : register(data, salt)
    \/ \E data \in LoginBodies : login(data)
    \/ \E op \in ProtectedOps, tok \in BadTokens : unauthenticated(op, tok)
    \/ health_check

\* registration, login and the authentication gate, from the empty database
Spec == Init /\ [][NextAuth]_vars

\* two accounts have registered and logged in; no entity has been created yet
\* (the state Spec reaches by two register and two login requests)
InitTenants ==
    /\ users = {[id |-> 1, email |-> "a@farm", name |-> "Ann",
                 password |-> generate_password_hash("pw1", 7), is_active |-> TRUE],
                [id |-> 2, email |-> "b@farm", name |-> "Bob",
                 password |-> generate_password_hash("pw2", 7), is_active |-> TRUE]}
    /\ products = {}
    /\ warehouses = {}
    /\ inventory = {}
    /\ sales = {}
    /\ expenses = {}
    /\ subscriptions = {}
    /\ nextId = [t \in TableNames |-> IF t = "users" THEN 3 ELSE 1]
    /\ tablesCreated = TRUE
    /\ now = 0
    /\ tokens = {1, 2}
    /\ credentials = {[email |-> "a@farm", password |-> "pw1"],
                      [email |-> "b@farm", password |-> "pw2"]}
    /\ req = NoRequest
    /\ resp = NoResponse
    /\ inflight = NoInflight

\* request bodies of the inventory specification
InvProductBodies ==
    [name : {Some("oyster")}, unit : {Null}, retail_price : {Some(2)},
     wholesale_price : {Some(1)}]
InvWarehouseBodies == [name : {Some("shed")}]
InvIds == 1..2
Quantities == {0, 1, 2}
InventoryBodies ==
    [warehouse_id : Opt(InvIds), product_id : {Some(1)}, quantity : Opt(Quantities)]
QuantityBodies == [quantity : {Null, Some(2)}]

NextInventory ==
    \/ \E uid \in {1, 2}, data \in InvProductBodies : create_product(uid, data)
    \/ \E uid \in {1, 2}, data \in InvWarehouseBodies : create_warehouse(uid, data)
    \/ \E uid \in {1, 2}, id \in InvIds : delete_warehouse(uid, id)
    \/ \E uid \in {1, 2}, data \in InventoryBodies : create_inventory(uid, data)
    \/ \E uid \in {1, 2}, id \in InvIds, data \in QuantityBodies :
           update_inventory(uid, id, data)
    \/ \E uid \in {1, 2}, id \in InvIds : delete_inventory(uid, id)

\* the inventory requests of two tenants, one request at a time
SpecInventory == InitTenants /\ [][NextInventory]_vars


ConcInventoryBodies ==
    [warehouse_id : {Some(1)}, product_id : {Some(1)}, quantity : Opt(Quantities)]

NextConcurrent ==
    \/ \E data \in InvProductBodies : create_product(1, data)
    \/ \E data \in InvWarehouseBodies : create_warehouse(1, data)
    \/ \E w \in Workers, uid \in {1, 2}, data \in ConcInventoryBodies :
           select_inventory(w, uid, data)
    \/ \E w \in Workers : commit_inventory(w)

\* two POST /inventory requests in flight at once
SpecConcurrent == InitTenants /\ [][NextConcurrent]_vars

\* request bodies of the ledger specification
LedgerSaleBodies ==
    {[type |-> Some("retail"), total |-> Some(2), quantity |-> Some(3), date |-> Null,
      product_id |-> Null, customer_name |-> Null, shop_name |-> Null],
     [type |-> Some("wholesale"), total |-> Some(1), quantity |-> Null, date |-> Null,
      product_id |-> Null, customer_name |-> Null, shop_name |-> Null],
     [type |-> Some("retail"), total |-> Some(4), quantity |-> Some(0), date |-> Some(0),
      product_id |-> Null, customer_name |-> Null, shop_name |-> Null]}
LedgerExpenseBodies == [category : {Some("feed")}, amount : {Some(1)}, date : {Null}]
LedgerSubscriptionBodies ==
    [customer_name : {Some("Cy")}, product_id : {Some(1)}, supply_days : {Null}]

\* rows the ledger and the CRUD specifications insert
LedgerCreates == MaxCreates - 1

NextLedger ==
    \/ \E data \in InvProductBodies : Created < LedgerCreates /\ create_product(1, data)
    \/ \E uid \in {1, 2}, data \in LedgerSaleBodies :
           Created < LedgerCreates /\ create_sale(uid, data)
    \/ \E uid \in {1, 2}, data \in LedgerExpenseBodies :
           Created < LedgerCreates /\ create_expense(uid, data)
    \/ \E uid \in {1, 2}, data \in LedgerSubscriptionBodies :
           Created < LedgerCreates /\ create_subscription(uid, data)
    \/ \E uid \in {1, 2} : get_dashboard_analytics(uid)
    \/ Tick

\* sales, expenses, subscriptions and the dashboard over two months
SpecLedger == InitTenants /\ [][NextLedger]_vars

\* request bodies of the CRUD specification
CrudSaleBodies ==
    [type : {Some("retail")}, total : {Some(1)}, quantity : {Null}, date : {Null},
     product_id : {Null}, customer_name : {Null}, shop_name : {Null}]
CrudSaleUpdates ==
    [customer_name : {Some("Dee")}, shop_name : {Null}, quantity : {Null},
     total : {Some(2)}]
CrudExpenseBodies == [category : {Some("feed")}, amount : {Some(1)}, date : {Null}]
CrudProductUpdates ==
    [name : {Some("shiitake")}, unit : {Null}, retail_price : {Null},
     wholesale_price : {Null}]
CrudWarehouseUpdates == [name : {Some("barn")}]
CrudInventoryBodies == [warehouse_id : {Some(1)}, product_id : {Some(1)}, quantity : {Some(1)}]
CrudIds == {1}

NextCrud ==
    \/ \E uid \in {1, 2}, data \in InvProductBodies :
           Created < LedgerCreates /\ create_product(uid, data)
    \/ \E uid \in {1, 2}, id \in CrudIds, data \in CrudProductUpdates :
           update_product(uid, id, data)
    \/ \E uid \in {1, 2}, id \in CrudIds : delete_product(uid, id)
    \/ \E uid \in {1, 2}, data \in InvWarehouseBodies :
           Created < LedgerCreates /\ create_warehouse(uid, data)
    \/ \E uid \in {1, 2}, id \in CrudIds, data \in CrudWarehouseUpdates :
           update_warehouse(uid, id, data)
    \/ \E uid \in {1, 2}, id \in CrudIds : delete_warehouse(uid, id)
    \/ \E uid \in {1, 2}, data \in CrudInventoryBodies :
           Created < LedgerCreates /\ create_inventory(uid, data)
    \/ \E uid \in {1, 2}, id \in CrudIds, data \in QuantityBodies :
           update_inventory(uid, id, data)
    \/ \E uid \in {1, 2}, id \in CrudIds : delete_inventory(uid, id)
    \/ \E uid \in {1, 2}, data \in CrudSaleBodies :
           Created < LedgerCreates /\ create_sale(uid, data)
    \/ \E uid \in {1, 2}, id \in CrudIds, data \in CrudSaleUpdates :
           update_sale(uid, id, data)
    \/ \E uid \in {1, 2}, id \in CrudIds : delete_sale(uid, id)
    \/ \E uid \in {1, 2}, data \in CrudExpenseBodies :
           Created < LedgerCreates /\ create_expense(uid, data)
    \/ \E uid \in {1, 2}, id \in CrudIds : delete_expense(uid, id)

\* create, update and delete of the five entity types, by two tenants
SpecCrud == InitTenants /\ [][NextCrud]_vars

\* supply-day labels: two weekday names, the empty label, a label holding a comma
Mon == <<"M", "o", "n">>
Thu == <<"T", "h", "u">>
SupplyDayLabels == {Mon, Thu, <<>>, Mon \o Comma \o Thu}
\* the lists of at most two labels
SupplyDayLists ==
    {<<>>} \cup {<<a>> : a \in SupplyDayLabels}
           \cup {<<a, b>> : a \in SupplyDayLabels, b \in SupplyDayLabels}
SubscriptionBodies ==
    [customer_name : {Some("Cy")}, product_id : {Some(1)},
     supply_days : Opt(SupplyDayLists)]

NextSubscription ==
    \/ \E data \in InvProductBodies : Created < LedgerCreates /\ create_product(1, data)
    \/ \E uid \in {1, 2}, data \in SubscriptionBodies :
           Created < LedgerCreates /\ create_subscription(uid, data)
    \/ \E uid \in {1, 2} : get_subscriptions(uid)

\* subscriptions created with lists of supply days and read back
SpecSubscription == InitTenants /\ [][NextSubscription]_vars

\* request bodies of the create specification: a required field absent, zero, or set
CreateProductBodies ==
    [name : Opt({"oyster"}), unit : {Null}, retail_price : Opt({0, 2}),
     wholesale_price : {Some(1)}]
CreateWarehouseBodies == [name : Opt({"barn"})]
CreateInventoryBodies ==
    [warehouse_id : {Some(1)}, product_id : {Some(1)}, quantity : Opt({0, 1})]
CreateSaleBodies ==
    [type : {Some("retail")}, total : Opt({0, 1}), quantity : {Null}, date : {Null},
     product_id : {Null}, customer_name : {Null}, shop_name : {Null}]
CreateExpenseBodies == [category : {Some("feed")}, amount : Opt({0, 1}), date : {Null}]
CreateSubscriptionBodies ==
    [customer_name : Opt({"Cy"}), product_id : {Some(1)}, supply_days : {Null}]

NextCreate ==
    \/ \E uid \in {1, 2}, data \in CreateProductBodies :
           Created < LedgerCreates /\ create_product(uid, data)
    \/ \E uid \in {1, 2}, data \in CreateWarehouseBodies :
           Created < LedgerCreates /\ create_warehouse(uid, data)
    \/ \E uid \in {1, 2}, data \in CreateInventoryBodies :
           Created < LedgerCreates /\ create_inventory(uid, data)
    \/ \E uid \in {1, 2}, data \in CreateSaleBodies :
           Created < LedgerCreates /\ create_sale(uid, data)
    \/ \E uid \in {1, 2}, data \in CreateExpenseBodies :
           Created < LedgerCreates /\ create_expense(uid, data)
    \/ \E uid \in {1, 2}, data \in CreateSubscriptionBodies :
           Created < LedgerCreates /\ create_subscription(uid, data)

\* the six create endpoints, by two tenants
SpecCreate == InitTenants /\ [][NextCreate]_vars

\* request bodies of the update specification; they also name fields no PUT reads
UpdateSaleCreates ==
    [type : {Some("retail")}, total : {Some(1)}, quantity : {Null}, date : {Null},
     product_id : {Null}, customer_name : {Some("Cy")}, shop_name : {Null}]
UpdateProductBodies ==
    [name : Opt({"shiitake"}), unit : {Null}, retail_price : {Some(3)},
     wholesale_price : {Null}, user_id : Opt({2})]
UpdateWarehouseBodies == [name : Opt({"barn"}), user_id : {Some(2)}]
UpdateInventoryBodies == [quantity : Opt({3}), warehouse_id : {Some(2)}]
UpdateSaleBodies ==
    [customer_name : Opt({"Dee"}), shop_name : {Null}, quantity : {Null},
     total : Opt({2}), type : {Some("wholesale")}]

\* the first row of a table is the one the updates name
NoRowYet(table) == nextId[table] = 1

NextUpdate ==
    \/ \E data \in InvProductBodies : NoRowYet("products") /\ create_product(1, data)
    \/ \E data \in InvWarehouseBodies : NoRowYet("warehouses") /\ create_warehouse(1, data)
    \/ \E data \in CrudInventoryBodies : NoRowYet("inventory") /\ create_inventory(1, data)
    \/ \E data \in UpdateSaleCreates : NoRowYet("sales") /\ create_sale(1, data)
    \/ \E uid \in {1, 2}, id \in CrudIds, data \in UpdateProductBodies :
           update_product(uid, id, data)
    \/ \E id \in CrudIds, data \in UpdateWarehouseBodies : update_warehouse(1, id, data)
    \/ \E id \in CrudIds, data \in UpdateInventoryBodies : update_inventory(1, id, data)
    \/ \E id \in CrudIds, data \in UpdateSaleBodies : update_sale(1, id, data)
    \/ Tick

\* the four PUT routes, on rows created some days before
SpecUpdate == InitTenants /\ [][NextUpdate]_vars

\* tokens and routes of the refused requests of the request specification
RefusedTokens == {NoToken, [kind |-> "expired", sub |-> 1]}
RefusedOps == {"get_products", "create_sale", "delete_warehouse"}

NextRequests ==
    \/ \E data \in RegisterBodies, salt \in Salts : register(data, salt)
    \/ \E data \in LoginBodies : login(data)
    \/ \E op \in RefusedOps, tok \in RefusedTokens : unauthenticated(op, tok)
    \/ health_check
    \/ \E uid \in {1, 2} : get_products(uid)
    \/ \E uid \in {1, 2} : get_warehouses(uid)
    \/ \E uid \in {1, 2} : get_inventory(uid)
    \/ \E uid \in {1, 2}, id \in CrudIds : get_warehouse_inventory(uid, id)
    \/ \E uid \in {1, 2} : get_sales(uid)
    \/ \E uid \in {1, 2} : get_expenses(uid)
    \/ \E uid \in {1, 2} : get_subscriptions(uid)
    \/ \E uid \in {1, 2} : get_dashboard_analytics(uid)
    \/ \E data \in CreateProductBodies : NoRowYet("products") /\ create_product(1, data)
    \/ \E data \in CreateWarehouseBodies :
           NoRowYet("warehouses") /\ create_warehouse(1, data)
    \/ \E data \in CreateInventoryBodies :
           NoRowYet("inventory") /\ create_inventory(1, data)
    \/ \E data \in CreateSaleBodies : NoRowYet("sales") /\ create_sale(1, data)
    \/ \E data \in CreateExpenseBodies : NoRowYet("expenses") /\ create_expense(1, data)
    \/ \E data \in CreateSubscriptionBodies :
           NoRowYet("subscriptions") /\ create_subscription(1, data)
    \/ \E uid \in {1, 2}, id \in CrudIds, data \in CrudProductUpdates :
           update_product(uid, id, data)
    \/ \E uid \in {1, 2}, id \in CrudIds, data \in QuantityBodies :
           update_inventory(uid, id, data)
    \/ \E uid \in {1, 2}, id \in CrudIds : delete_product(uid, id)
    \/ \E uid \in {1, 2}, id \in CrudIds : delete_warehouse(uid, id)
    \/ \E uid \in {1, 2}, id \in CrudIds : delete_sale(uid, id)
    \/ \E uid \in {1, 2}, id \in CrudIds : delete_expense(uid, id)

\* every kind of request: refused, reading and writing, by two tenants
SpecRequests == InitTenants /\ [][NextRequests]_vars

----------------------------------------------------------------------------
(* Claims about registration, login and the authentication gate (Spec) *)

RegisterComplete(data) ==
    TruthyStr(data.email) /\ TruthyStr(data.password) /\ TruthyStr(data.name)

UniqueEmails(rows) == \A u, v \in rows : u.email = v.email => u = v

\* C7 as stated: a register request whose email equals the email of an existing
\* account is answered 409 and creates no account, whatever its other fields, and
\* no two accounts ever share an email.
C7_AsStated ==
    [][/\ (req'.op = "register" /\ req'.data.email # Null
           /\ \E u \in users : u.email = req'.data.email[1])
          => (resp'.status = 409 /\ users' = users)
       /\ UniqueEmails(users')]_vars

\* C7 amended: a register request that carries email, password and name and whose
\* email equals the email of an existing account is answered 409, whatever the
\* values of its other fields; one whose password or name is missing is answered
\* 400; either way no account is created, and no two accounts share an email.
C7_DuplicateEmail ==
    [][/\ (req'.op = "register" /\ req'.data.email # Null
           /\ \E u \in users : u.email = req'.data.email[1])
          => /\ users' = users
             /\ resp'.status = IF RegisterComplete(req'.data) THEN 409 ELSE 400
       /\ UniqueEmails(users')]_vars

\* a second registration with a taken email and another name and password is refused
C7_Witness ==
    /\ req.op = "register"
    /\ resp.status = 409
    /\ \E u \in users : /\ u.email = req.data.email[1]
                        /\ u.name # req.data.name[1]
                        /\ ~check_password_hash(u.password, req.data.password[1])

\* C8: a login that names a registered account succeeds with a token exactly when
\* its password is the one given at registration; a login with an unknown email
\* and a login with a known email and a wrong password get the very same answer,
\* 401 'Invalid email or password' (an empty or absent email or password is a
\* missing field, 400, whether or not the email is known).
C8_Login ==
    req.op = "login"
    => IF TruthyStr(req.data.email) /\ TruthyStr(req.data.password)
       THEN LET given == [email |-> req.data.email[1],
                          password |-> req.data.password[1]]
            IN  IF given \in credentials
                THEN /\ resp.status = 200
                     /\ \E u \in users : /\ u.email = given.email
                                         /\ resp.body.access_token = ValidToken(u.id)
                ELSE resp = Response(401, "Invalid email or password", Null, PublicSteps)
       ELSE resp = Response(400, "Missing email or password", Null, PublicSteps)

\* a registered email with a wrong password is refused with 401
C8_Witness ==
    /\ req.op = "login"
    /\ resp.status = 401
    /\ TruthyStr(req.data.password)
    /\ \E c \in credentials : c.email = req.data.email[1]
                              /\ c.password # req.data.password[1]

\* C9: when a protected route is called with a missing, malformed, expired or
\* wrongly signed token, the request is refused and token verification is the
\* first thing that happened: no database access precedes it.
C9_VerifyFirst ==
    (req.op \in ProtectedOps /\ req.token.kind # "valid")
    => /\ resp.status \in {401, 422}
       /\ resp.steps # <<>>
       /\ resp.steps[1] = "verify_jwt"
       /\ \A i \in 1..Len(resp.steps) : resp.steps[i] # "create_all"

----------------------------------------------------------------------------
(* Claims about inventory (SpecInventory) *)

SameTriple(i, j) ==
    i.user_id = j.user_id /\ i.warehouse_id = j.warehouse_id /\ i.product_id = j.product_id

\* C1: with the inventory requests issued one at a time, there is never more than
\* one inventory row for an (account, warehouse, product) triple.
C1_OneRowPerTriple == \A i, j \in inventory : SameTriple(i, j) => i = j

\* a POST /inventory for a triple that has a row was merged while other rows exist
C1_Witness ==
    /\ req.op = "create_inventory"
    /\ resp.status = 200
    /\ Cardinality(inventory) >= 2

\* C3 as stated: POST /inventory with quantity q for an existing warehouse and
\* product inserts a row with quantity q and answers 201 when the triple has no
\* row; when it has a row with quantity p it inserts nothing, sets the quantity to
\* p + q, refreshes the stock date and answers 200.
C3_MergeOrCreate ==
    [][(/\ req'.op = "create_inventory"
        /\ req'.data.warehouse_id # Null
        /\ req'.data.product_id # Null
        /\ req'.data.quantity # Null
        /\ req'.data.warehouse_id[1] \in Ids(warehouses)
        /\ req'.data.product_id[1] \in Ids(products))
       => LET q == req'.data.quantity[1]
              old == {i \in inventory : /\ i.user_id = req'.token.sub
                                        /\ i.warehouse_id = req'.data.warehouse_id[1]
                                        /\ i.product_id = req'.data.product_id[1]}
          IN  IF old = {}
              THEN /\ resp'.status = 201
                   /\ \E new \in inventory' \ inventory :
                        /\ inventory' = inventory \cup {new}
                        /\ new.quantity = q
                        /\ new.user_id = req'.token.sub
                        /\ new.warehouse_id = req'.data.warehouse_id[1]
                        /\ new.product_id = req'.data.product_id[1]
              ELSE /\ resp'.status = 200
                   /\ Ids(inventory') = Ids(inventory)
                   /\ \A i \in inventory' :
                        IF i.id \in Ids(old)
                        THEN /\ i.date = now
                             /\ \E o \in old : o.id = i.id /\ i.quantity = o.quantity + q
                        ELSE i \in inventory]_vars

RowsOfOthers(rows, uid) == {r \in rows : r.user_id # uid}

\* C4: a request made with one account's token leaves every row owned by another
\* account as it was, in every table.
C4_TenantIsolation ==
    [][req'.token.kind = "valid"
       => LET uid == req'.token.sub
          IN  /\ RowsOfOthers(products', uid) = RowsOfOthers(products, uid)
              /\ RowsOfOthers(warehouses', uid) = RowsOfOthers(warehouses, uid)
              /\ RowsOfOthers(inventory', uid) = RowsOfOthers(inventory, uid)
              /\ RowsOfOthers(sales', uid) = RowsOfOthers(sales, uid)
              /\ RowsOfOthers(expenses', uid) = RowsOfOthers(expenses, uid)
              /\ RowsOfOthers(subscriptions', uid) = RowsOfOthers(subscriptions, uid)]_vars

\* C6: a successful DELETE /warehouses/{id} removes the warehouse row and every
\* inventory row that references it in one step, a refused one removes nothing,
\* and in no state does an inventory row reference a warehouse that is gone.
C6_WarehouseCascade ==
    [][/\ req'.op = "delete_warehouse"
          => IF resp'.status = 200
             THEN /\ req'.id \in Ids(warehouses)
                  /\ warehouses' = {w \in warehouses : w.id # req'.id}
                  /\ inventory' = {i \in inventory : i.warehouse_id # req'.id}
             ELSE warehouses' = warehouses /\ inventory' = inventory
       /\ \A i \in inventory' : i.warehouse_id \in Ids(warehouses')]_vars

\* a warehouse was deleted together with at least one inventory row
C6_Witness ==
    /\ req.op = "delete_warehouse"
    /\ resp.status = 200
    /\ resp.body.cascaded >= 1

----------------------------------------------------------------------------
(* Claims about concurrent inventory requests (SpecConcurrent) *)

\* C2: when two POST /inventory requests of one account for the same warehouse and
\* product run interleaved on a triple without a row and both succeed, the table
\* ends with exactly one row for the triple, holding the sum of both quantities.
C2_AtomicMerge ==
    (/\ inflight[1].pc = "done" /\ inflight[2].pc = "done"
     /\ inflight[1].status \in {200, 201} /\ inflight[2].status \in {200, 201}
     /\ inflight[1].user_id = inflight[2].user_id
     /\ inflight[1].data.warehouse_id = inflight[2].data.warehouse_id
     /\ inflight[1].data.product_id = inflight[2].data.product_id)
    => LET rows == ExistingInventory(inventory, inflight[1].user_id,
                                     inflight[1].data.warehouse_id[1],
                                     inflight[1].data.product_id[1])
       IN  /\ Cardinality(rows) = 1
           /\ \A i \in rows :
                i.quantity = inflight[1].data.quantity[1] + inflight[2].data.quantity[1]

----------------------------------------------------------------------------
(* Claims about update and delete across accounts (SpecCrud) *)

UpdateDeleteOps == {"update_product", "delete_product", "update_warehouse",
                    "delete_warehouse", "update_inventory", "delete_inventory",
                    "update_sale", "delete_sale", "delete_expense"}

\* the table an update or delete route works on, given the five tables
TableOf(op, p, w, i, s, e) ==
    CASE op \in {"update_product", "delete_product"} -> p
      [] op \in {"update_warehouse", "delete_warehouse"} -> w
      [] op \in {"update_inventory", "delete_inventory"} -> i
      [] op \in {"update_sale", "delete_sale"} -> s
      [] op = "delete_expense" -> e

\* C5: a PUT or DELETE on a product, warehouse, inventory row, sale or expense
\* that names the id of a row owned by another account is answered 404 and
\* leaves that row as it was.
C5_CrossAccountNotFound ==
    [][req'.op \in UpdateDeleteOps
       => LET before == TableOf(req'.op, products, warehouses, inventory, sales,
                                expenses)
              after == TableOf(req'.op, products', warehouses', inventory', sales',
                               expenses')
              foreign == {r \in before : r.id = req'.id /\ r.user_id # req'.token.sub}
          IN  foreign # {} => (resp'.status = 404 /\ foreign \subseteq after)]_vars

\* an account was refused the delete of another account's expense
C5_Witness ==
    /\ req.op = "delete_expense"
    /\ resp.status = 404
    /\ \E e \in expenses : e.id = req.id /\ e.user_id # req.token.sub

----------------------------------------------------------------------------
(* Claims about the dashboard (SpecLedger) *)

FirstOfMonth == (now \div MonthLen) * MonthLen

InWindow(rows, uid) == {r \in rows : r.user_id = uid /\ r.date >= FirstOfMonth}

\* the sum of value[id] over the ids
RECURSIVE SumByIds(_, _)
SumByIds(ids, value) ==
    IF ids = {} THEN 0
    ELSE LET id == CHOOSE x \in ids : TRUE
         IN  value[id] + SumByIds(ids \ {id}, value)

RowById(rows, id) == CHOOSE r \in rows : r.id = id

Revenue(rows) == SumByIds(Ids(rows), [id \in Ids(rows) |-> RowById(rows, id).total])
Boxes(rows) ==
    SumByIds(Ids(rows), [id \in Ids(rows) |->
                           IF RowById(rows, id).quantity = Null THEN 0
                           ELSE RowById(rows, id).quantity[1]])
Spent(rows) == SumByIds(Ids(rows), [id \in Ids(rows) |-> RowById(rows, id).amount])

\* what the claim says of every metric but the sum of expenses
DashboardOther(uid, body) ==
    /\ body.total_revenue = Revenue(InWindow(sales, uid))
    /\ body.sales_boxes = Boxes(InWindow(sales, uid))
    /\ body.profit = Revenue(InWindow(sales, uid)) - Spent(InWindow(expenses, uid))
    /\ body.sales_count = Cardinality(InWindow(sales, uid))
    /\ body.expense_count = Cardinality(InWindow(expenses, uid))
    /\ body.active_subscriptions =
           Cardinality({x \in subscriptions : x.user_id = uid /\ x.status = "Active"})

----------------------------------------------------------------------------
(* Claims about subscriptions (SpecSubscription) *)

\* the list a created subscription was asked to hold
RequestedSupplyDays == GetOr(req.data.supply_days, <<>>)

\* C11: a subscription created with the list L of supply days reads back as exactly L,
\* in the create response and in the stored row as GET /subscriptions serialises it;
\* an unset or empty list reads back as the empty list
C11_RoundTrip ==
    (req.op = "create_subscription" /\ resp.status = 201) =>
        /\ resp.body.supply_days = RequestedSupplyDays
        /\ \A s \in subscriptions :
               s.id = resp.body.id =>
                   Subscription_to_dict(s).supply_days = RequestedSupplyDays

----------------------------------------------------------------------------
(* Claims about the create endpoints (SpecCreate) *)

CreateOps == {"create_product", "create_warehouse", "create_inventory", "create_sale",
              "create_expense", "create_subscription"}

\* the values the body gives for the required fields of the entity
RequiredFields(op, data) ==
    CASE op = "create_product" -> <<data.name, data.retail_price, data.wholesale_price>>
      [] op = "create_warehouse" -> <<data.name>>
      [] op = "create_inventory" -> <<data.warehouse_id, data.product_id, data.quantity>>
      [] op = "create_sale" -> <<data.type, data.total>>
      [] op = "create_expense" -> <<data.category, data.amount>>
      [] op = "create_subscription" -> <<data.customer_name, data.product_id>>

SomeFieldAbsent(fields) == \E i \in DOMAIN fields : fields[i] = Null

\* the rows the body refers to exist
ReferencesExist(op, data) ==
    CASE op = "create_inventory" ->
             InventoryKeysExist(data.warehouse_id[1], data.product_id[1])
      [] op = "create_subscription" -> ProductKeyExists(data.product_id[1])
      [] op = "create_sale" -> data.product_id = Null \/ ProductKeyExists(data.product_id[1])
      [] OTHER -> TRUE

CreatedTable(op) ==
    CASE op = "create_product" -> products
      [] op = "create_warehouse" -> warehouses
      [] op = "create_inventory" -> inventory
      [] op = "create_sale" -> sales
      [] op = "create_expense" -> expenses
      [] op = "create_subscription" -> subscriptions

\* C12: a create is answered 400 exactly when a required field is absent from the
\* body; when every required field is present (numbers being any non-negative number)
\* and refers to existing rows, the create succeeds and the entity is stored under
\* the caller's account id
C12_CreateValidation ==
    req.op \in CreateOps =>
        LET absent == SomeFieldAbsent(RequiredFields(req.op, req.data))
        IN  /\ resp.status = 400 <=> absent
            /\ (~absent /\ ReferencesExist(req.op, req.data)) =>
                   /\ resp.status \in {200, 201}
                   /\ \E row \in CreatedTable(req.op) :
                          row.id = resp.body.id /\ row.user_id = req.token.sub

----------------------------------------------------------------------------
(* Claims about delete (SpecCrud) *)

DeleteOps == {"delete_product", "delete_warehouse", "delete_inventory", "delete_sale",
              "delete_expense"}

\* C13: a delete has two outcomes: when a row with the id exists under the caller's
\* account it is answered 200 and the row is removed, whatever rows refer to it;
\* otherwise it is answered 404
C13_DeleteOutcomes ==
    [][req'.op \in DeleteOps
       => LET before == TableOf(req'.op, products, warehouses, inventory, sales,
                                expenses)
              after == TableOf(req'.op, products', warehouses', inventory', sales',
                               expenses')
              owned == {r \in before : r.id = req'.id /\ r.user_id = req'.token.sub}
          IN  IF owned # {}
              THEN resp'.status = 200 /\ after = before \ owned
              ELSE resp'.status = 404 /\ after = before]_vars

----------------------------------------------------------------------------
(* Claims about update (SpecUpdate) *)

UpdateOps == {"update_product", "update_warehouse", "update_inventory", "update_sale"}

\* the fields a PUT may set
Updatable(op) ==
    CASE op = "update_product" -> {"name", "unit", "retail_price", "wholesale_price"}
      [] op = "update_warehouse" -> {"name"}
      [] op = "update_inventory" -> {"quantity"}
      [] op = "update_sale" -> {"customer_name", "shop_name", "quantity", "total"}

\* the fields the body names
Named(data) == {f \in DOMAIN data : data[f] # Null}

\* a successful update changes, in the row it names, only the allowed fields and the
\* fields the exempt set lists; every other row stays as it was
UpdateFrame(exempt) ==
    (req'.op \in UpdateOps /\ resp'.status = 200) =>
        LET before == TableOf(req'.op, products, warehouses, inventory, sales, expenses)
            after == TableOf(req'.op, products', warehouses', inventory', sales',
                             expenses')
            allowed == Named(req'.data) \cap Updatable(req'.op)
        IN  /\ Ids(after) = Ids(before)
            /\ \A r \in before :
                   \E r2 \in after :
                       /\ r2.id = r.id
                       /\ r2.user_id = r.user_id
                       /\ \A f \in DOMAIN r :
                              r2[f] # r[f] =>
                                  r.id = req'.id /\ f \in allowed \cup exempt

\* C14, as stated: a successful PUT changes only fields that the body names and
\* that are updatable; every other field, the id and the owner keep their values
C14_AsStated == [][UpdateFrame({})]_vars

\* C14, amended: the same, except that a successful PUT on a product or a
\* warehouse also sets the row's updated_at to the time of the request
C14_UpdateFrame ==
    [][/\ UpdateFrame({"updated_at"})
       /\ (req'.op \in {"update_product", "update_warehouse"} /\ resp'.status = 200) =>
              \A r \in TableOf(req'.op, products', warehouses', inventory', sales',
                               expenses') :
                  r.id = req'.id => r.updated_at = now']_vars

\* a product updated on a later day by a body naming its name and its owner:
\* the name and the update time changed, the owner did not
C14_Witness ==
    /\ req.op = "update_product"
    /\ resp.status = 200
    /\ req.data.name # Null
    /\ req.data.user_id # Null
    /\ \E p \in products :
           /\ p.id = req.id
           /\ p.name = req.data.name[1]
           /\ p.user_id # req.data.user_id[1]
           /\ p.updated_at > 0

----------------------------------------------------------------------------
(* Claims about refused and reading requests (SpecRequests) *)

ReadOps == {"get_products", "get_warehouses", "get_inventory",
            "get_warehouse_inventory", "get_sales", "get_expenses",
            "get_subscriptions", "get_dashboard_analytics", "health_check", "login"}

\* C15: a request answered with a 4xx status, and a reading request (the GET lists,
\* the dashboard, the health check, the login), leave the stored accounts and the
\* stored entities of every account as they were
C15_NoWrite ==
    [][(resp'.status \in 400..499 \/ req'.op \in ReadOps)
       => UNCHANGED <<users, products, warehouses, inventory, sales, expenses,
                      subscriptions>>]_vars

\* an account was refused the delete of another account's stocked warehouse
C15_Witness ==
    /\ req.op = "delete_warehouse"
    /\ resp.status = 404
    /\ \E w \in warehouses : w.id = req.id /\ w.user_id # req.token.sub
    /\ \E i \in inventory : i.warehouse_id = req.id

====
